---- MODULE Spec2Model ----
(***************************************************************************)
(* Verification model of the prioritiser sorting engine: the comparison    *)
(* cache (domain/sortingEngine/cache.ts) and the resumable merge engine     *)
(* (domain/sortingEngine/mergeEngine.ts).                                   *)
(*                                                                          *)
(* Task ids are the strings `task_<uuid>` of generateTaskId: they hold no   *)
(* '|' and are compared by the string order `<`. The model writes them as   *)
(* the integers 1..n in that string order. A cache key `${a}|${b}` is the   *)
(* pair <<a, b>>. The JavaScript values undefined and null, which an array  *)
(* of ids can come to hold, are UndefinedId and NullId.                     *)
(***************************************************************************)
EXTENDS Integers, Sequences, FiniteSets, TLC

\* Largest number of items of one session.
MaxItems == 4

\* Largest number of items of one session where sessions are restarted with
\* the cache kept, resumed from storage, or misused.
SmallItems == 3

\* Largest comparisonsAsked a session is driven to by commits alone.
MaxAsked == 9

\* Largest number of answers in a cache the transitive closure is applied to.
MaxEntries == 3

\* Largest number of different contents the store's lists take after edits.
MaxData == 2

\* Largest number of times the component using the persistence hook mounts.
MaxMounts == 2

TaskIds == 1 .. MaxItems

\* JavaScript null (what JSON makes of an undefined array element) and
\* undefined (what reading an array past its end yields).
NullId == 0
UndefinedId == -1

IsString(v) == v \in TaskIds

\* CompareResult = -1 | 0 | 1, and the `undefined` of a cache miss.
CompareResults == {-1, 0, 1}
Absent == 2

\* requestNextPair's null.
NoPair == <<>>

\* ------------------------------------------------------------------------
\* cache.ts

\* JavaScript `a < b`: string order on two strings; with undefined or null
\* on a side both operands become numbers, one of them NaN, and it is false.
StrLess(a, b) == IsString(a) /\ IsString(b) /\ a < b

createCacheKey(a, b) == IF StrLess(a, b) THEN <<a, b>> ELSE <<b, a>>

\* normalizeResult without the flip for swapped operands.
normalizeResultNoFlip(a, b, result) == result

normalizeResult(a, b, result) ==
    IF StrLess(a, b) THEN result
    ELSE IF result = 0 THEN 0 ELSE 0 - result

\* A Record<string, CompareResult> is the set of its entries <<key, value>>,
\* one per key; the Map inside the cache closure is a function on its keys.
RecordKeys(record) == {e[1] : e \in record}

RecordValue(record, key) == (CHOOSE e \in record : e[1] = key)[2]

EmptyRecord == {}

EmptyMap == [k \in {} |-> 0]

MapSet(map, key, value) ==
    [k \in (DOMAIN map) \cup {key} |-> IF k = key THEN value ELSE map[k]]

\* createComparisonCache(initialData): every entry of the record is put into
\* a fresh Map.
createComparisonCache(initialData) ==
    [k \in RecordKeys(initialData) |-> RecordValue(initialData, k)]

CacheGet(map, a, b) ==
    LET key == createCacheKey(a, b)
    IN  IF key \notin DOMAIN map THEN Absent
        ELSE normalizeResult(a, b, map[key])

\* set() keeping the value a key already has: the first write wins.
CacheSetKeepFirst(map, a, b, result) ==
    LET key == createCacheKey(a, b)
        normalized == normalizeResult(a, b, result)
    IN  IF key \in DOMAIN map THEN map ELSE MapSet(map, key, normalized)

CacheSet(map, a, b, result) ==
    LET key == createCacheKey(a, b)
        normalized == normalizeResult(a, b, result)
    IN  MapSet(map, key, normalized)

\* has() looking up `${a}|${b}` as given, not the canonical key.
CacheHasUncanonical(map, a, b) == <<a, b>> \in DOMAIN map

CacheHas(map, a, b) == createCacheKey(a, b) \in DOMAIN map

CacheClear(map) == EmptyMap

\* toRecord skipping falsy values (`if (value) record[key] = value`).
toRecordTruthy(map) == {<<k, map[k]>> : k \in {j \in DOMAIN map : map[j] # 0}}

toRecord(map) == {<<k, map[k]>> : k \in DOMAIN map}

fromRecord(map, record) ==
    LET cleared == CacheClear(map)
    IN  [k \in (DOMAIN cleared) \cup RecordKeys(record) |->
            IF k \in RecordKeys(record) THEN RecordValue(record, k) ELSE cleared[k]]

\* applyTransitiveClosure(cache, taskIds). The graph is a Map from each id of
\* the list to the Set of the ids it is greater than.

\* The first pass: an edge a -> b for every cached greater, b -> a for every
\* cached less.
ClosureGraph(map, taskIds) ==
    LET nodes == {taskIds[x] : x \in 1 .. Len(taskIds)}
    IN  [a \in nodes |->
            {b \in nodes \ {a} : CacheGet(map, a, b) = 1 \/ CacheGet(map, b, a) = -1}]

\* The loop body writing the inferred answer whether the pair is cached or not.
ClosureStepOverwrite(acc, k, i, j) ==
    IF i = j \/ i = k \/ j = k THEN acc
    ELSE IF k \in acc.graph[i] /\ j \in acc.graph[k]
    THEN [graph |-> [acc.graph EXCEPT ![i] = @ \cup {j}],
          cache |-> CacheSet(acc.cache, i, j, 1)]
    ELSE acc

\* The loop body leaving the inferred edge out of the graph.
ClosureStepNoEdge(acc, k, i, j) ==
    IF i = j \/ i = k \/ j = k THEN acc
    ELSE IF k \in acc.graph[i] /\ j \in acc.graph[k]
    THEN [graph |-> acc.graph,
          cache |-> IF CacheHas(acc.cache, i, j) THEN acc.cache
                    ELSE CacheSet(acc.cache, i, j, 1)]
    ELSE acc

\* The body of the innermost loop, for one k, i, j.
ClosureStep(acc, k, i, j) ==
    IF i = j \/ i = k \/ j = k THEN acc
    ELSE IF k \in acc.graph[i] /\ j \in acc.graph[k]
    THEN [graph |-> [acc.graph EXCEPT ![i] = @ \cup {j}],
          cache |-> IF CacheHas(acc.cache, i, j) THEN acc.cache
                    ELSE CacheSet(acc.cache, i, j, 1)]
    ELSE acc

\* The three nested forEach loops over the list, k outermost; x is the
\* position the loop has come to. (TLC evaluates operator arguments lazily;
\* comparing the step's outcome makes it evaluate each step in its turn.)
RECURSIVE ClosureForJ(_, _, _, _, _)
ClosureForJ(acc, taskIds, k, i, x) ==
    IF x > Len(taskIds) THEN acc
    ELSE LET next == ClosureStep(acc, k, i, taskIds[x])
         IN  IF next = acc THEN ClosureForJ(acc, taskIds, k, i, x + 1)
             ELSE ClosureForJ(next, taskIds, k, i, x + 1)

RECURSIVE ClosureForI(_, _, _, _)
ClosureForI(acc, taskIds, k, x) ==
    IF x > Len(taskIds) THEN acc
    ELSE LET next == ClosureForJ(acc, taskIds, k, taskIds[x], 1)
         IN  IF next = acc THEN ClosureForI(acc, taskIds, k, x + 1)
             ELSE ClosureForI(next, taskIds, k, x + 1)

RECURSIVE ClosureForK(_, _, _)
ClosureForK(acc, taskIds, x) ==
    IF x > Len(taskIds) THEN acc
    ELSE LET next == ClosureForI(acc, taskIds, taskIds[x], 1)
         IN  IF next = acc THEN ClosureForK(acc, taskIds, x + 1)
             ELSE ClosureForK(next, taskIds, x + 1)

applyTransitiveClosure(map, taskIds) ==
    ClosureForK([graph |-> ClosureGraph(map, taskIds), cache |-> map], taskIds, 1).cache

\* ------------------------------------------------------------------------
\* mergeEngine.ts

\* 2^k and n^n, for Math.ceil(n * Math.log2(n)):
\* k >= n*log2(n) exactly when 2^k >= n^n.
RECURSIVE Pow(_, _)
Pow(b, e) == IF e = 0 THEN 1 ELSE b * Pow(b, e - 1)

\* Math.ceil(Math.log2(n)): the factor n forgotten.
estimateComparisonsLog(n) ==
    IF n <= 1 THEN 0
    ELSE CHOOSE k \in 1 .. n : Pow(2, k) >= n /\ Pow(2, k - 1) < n

\* Math.ceil(n * Math.log2(n + 1)), guarded by n < 1.
estimateComparisonsPlusOne(n) ==
    IF n < 1 THEN 0
    ELSE CHOOSE k \in 1 .. (n * n + 1) :
            Pow(2, k) >= Pow(n + 1, n) /\ Pow(2, k - 1) < Pow(n + 1, n)

estimateComparisons(n) ==
    IF n <= 1 THEN 0
    ELSE CHOOSE k \in 1 .. (n * n) :
            Pow(2, k) >= Pow(n, n) /\ Pow(2, k - 1) < Pow(n, n)

createSession(taskIds, existingCache) ==
    LET cache == createComparisonCache(existingCache)
        runs == [i \in 1 .. Len(taskIds) |-> <<taskIds[i]>>]
    IN  [algo |-> "merge",
         comparisonsAsked |-> 0,
         comparisonsTotal |-> estimateComparisons(Len(taskIds)),
         cache |-> toRecord(cache),
         internal |-> [runs |-> runs, stack |-> <<>>, result |-> <<>>]]

\* array[idx] with a 0-based index: undefined past the end.
At(array, idx) == IF idx < Len(array) THEN array[idx + 1] ELSE UndefinedId

Pop(array) == SubSeq(array, 1, Len(array) - 1)

Top(array) == array[Len(array)]

ReplaceTop(array, v) == [array EXCEPT ![Len(array)] = v]

\* advanceFrame taking the left element when it is less: ascending order.
advanceFrameAscending(frame, result) ==
    IF result = -1 \/ result = 0
    THEN [frame EXCEPT !.merged = Append(@, At(frame.left, frame.leftIdx)),
                       !.leftIdx = @ + 1]
    ELSE [frame EXCEPT !.merged = Append(@, At(frame.right, frame.rightIdx)),
                       !.rightIdx = @ + 1]

\* advanceFrame moving both cursors on a tie.
advanceFrameBothCursors(frame, result) ==
    IF result = 1 \/ result = 0
    THEN [frame EXCEPT !.merged = Append(@, At(frame.left, frame.leftIdx)),
                       !.leftIdx = @ + 1,
                       !.rightIdx = IF result = 0 THEN @ + 1 ELSE @]
    ELSE [frame EXCEPT !.merged = Append(@, At(frame.right, frame.rightIdx)),
                       !.rightIdx = @ + 1]

\* advanceFrame taking the right element on a tie.
advanceFrameTieRight(frame, result) ==
    IF result = 1
    THEN [frame EXCEPT !.merged = Append(@, At(frame.left, frame.leftIdx)),
                       !.leftIdx = @ + 1]
    ELSE [frame EXCEPT !.merged = Append(@, At(frame.right, frame.rightIdx)),
                       !.rightIdx = @ + 1]

\* advanceFrame(frame, result)
advanceFrame(frame, result) ==
    IF result = 1 \/ result = 0
    THEN [frame EXCEPT !.merged = Append(@, At(frame.left, frame.leftIdx)),
                       !.leftIdx = @ + 1]
    ELSE [frame EXCEPT !.merged = Append(@, At(frame.right, frame.rightIdx)),
                       !.rightIdx = @ + 1]

\* The two while loops that append what is left of either run.
RECURSIVE DrainLeft(_)
DrainLeft(frame) ==
    IF frame.leftIdx < Len(frame.left)
    THEN DrainLeft([frame EXCEPT !.merged = Append(@, At(frame.left, frame.leftIdx)),
                                 !.leftIdx = @ + 1])
    ELSE frame

RECURSIVE DrainRight(_)
DrainRight(frame) ==
    IF frame.rightIdx < Len(frame.right)
    THEN DrainRight([frame EXCEPT !.merged = Append(@, At(frame.right, frame.rightIdx)),
                                  !.rightIdx = @ + 1])
    ELSE frame

\* The second loop running to `<=`: one read past the end of the right run.
DrainFramePastEnd(frame) ==
    LET d == DrainRight(DrainLeft(frame))
    IN  [d EXCEPT !.merged = Append(@, At(d.right, d.rightIdx)), !.rightIdx = @ + 1]

\* The second loop forgotten: what is left of the right run is dropped.
DrainFrameLeftOnly(frame) == DrainLeft(frame)

DrainFrame(frame) == DrainRight(DrainLeft(frame))

\* The frame-complete test with both runs required to be exhausted.
FrameCompleteBoth(frame) ==
    frame.leftIdx >= Len(frame.left) /\ frame.rightIdx >= Len(frame.right)

FrameComplete(frame) ==
    frame.leftIdx >= Len(frame.left) \/ frame.rightIdx >= Len(frame.right)

\* A frame started over the two runs in the other order.
NewFrameSwapped(left, right) ==
    [left |-> right, right |-> left, leftIdx |-> 0, rightIdx |-> 0, merged |-> <<>>]

NewFrame(left, right) ==
    [left |-> left, right |-> right, leftIdx |-> 0, rightIdx |-> 0, merged |-> <<>>]

\* requestNextPair pushing the new merge frame twice.
RECURSIVE requestNextPairPushTwice(_)
requestNextPairPushTwice(state) ==
    LET internal == state.internal
        cache == createComparisonCache(state.cache)
    IN  IF Len(internal.stack) > 0
        THEN LET frame == Top(internal.stack)
             IN  IF FrameComplete(frame)
                 THEN LET drained == DrainFrame(frame)
                      IN  requestNextPairPushTwice(
                            [state EXCEPT !.internal.stack = Pop(@),
                                          !.internal.runs = Append(@, drained.merged)])
                 ELSE LET a == At(frame.left, frame.leftIdx)
                          b == At(frame.right, frame.rightIdx)
                      IN  IF CacheHas(cache, a, b)
                          THEN requestNextPairPushTwice(
                                 [state EXCEPT !.internal.stack =
                                     ReplaceTop(@, advanceFrame(frame, CacheGet(cache, a, b)))])
                          ELSE [state |-> state, pair |-> <<a, b>>]
        ELSE IF Len(internal.runs) = 0
        THEN [state |-> state, pair |-> NoPair]
        ELSE IF Len(internal.runs) = 1
        THEN [state |-> [state EXCEPT !.internal.result = internal.runs[1]],
              pair |-> NoPair]
        ELSE LET left == internal.runs[1]
                 right == internal.runs[2]
             IN  requestNextPairPushTwice(
                   [state EXCEPT !.internal.runs = SubSeq(@, 3, Len(@)),
                                 !.internal.stack = Append(Append(@, NewFrame(left, right)),
                                                          NewFrame(left, right))])

\* requestNextPair counting the pair it returns in comparisonsAsked.
RECURSIVE requestNextPairCountsAsk(_)
requestNextPairCountsAsk(state) ==
    LET internal == state.internal
        cache == createComparisonCache(state.cache)
    IN  IF Len(internal.stack) > 0
        THEN LET frame == Top(internal.stack)
             IN  IF FrameComplete(frame)
                 THEN LET drained == DrainFrame(frame)
                      IN  requestNextPairCountsAsk(
                            [state EXCEPT !.internal.stack = Pop(@),
                                          !.internal.runs = Append(@, drained.merged)])
                 ELSE LET a == At(frame.left, frame.leftIdx)
                          b == At(frame.right, frame.rightIdx)
                      IN  IF CacheHas(cache, a, b)
                          THEN requestNextPairCountsAsk(
                                 [state EXCEPT !.internal.stack =
                                     ReplaceTop(@, advanceFrame(frame, CacheGet(cache, a, b)))])
                          ELSE [state |-> [state EXCEPT !.comparisonsAsked = @ + 1],
                                pair |-> <<a, b>>]
        ELSE IF Len(internal.runs) = 0
        THEN [state |-> state, pair |-> NoPair]
        ELSE IF Len(internal.runs) = 1
        THEN [state |-> [state EXCEPT !.internal.result = internal.runs[1]],
              pair |-> NoPair]
        ELSE LET left == internal.runs[1]
                 right == internal.runs[2]
             IN  requestNextPairCountsAsk(
                   [state EXCEPT !.internal.runs = SubSeq(@, 3, Len(@)),
                                 !.internal.stack = Append(@, NewFrame(left, right))])

\* requestNextPair putting a finished merge at the front of the run queue.
RECURSIVE requestNextPairPushFront(_)
requestNextPairPushFront(state) ==
    LET internal == state.internal
        cache == createComparisonCache(state.cache)
    IN  IF Len(internal.stack) > 0
        THEN LET frame == Top(internal.stack)
             IN  IF FrameComplete(frame)
                 THEN LET drained == DrainFrame(frame)
                      IN  requestNextPairPushFront(
                            [state EXCEPT !.internal.stack = Pop(@),
                                          !.internal.runs = <<drained.merged>> \o @])
                 ELSE LET a == At(frame.left, frame.leftIdx)
                          b == At(frame.right, frame.rightIdx)
                      IN  IF CacheHas(cache, a, b)
                          THEN requestNextPairPushFront(
                                 [state EXCEPT !.internal.stack =
                                     ReplaceTop(@, advanceFrame(frame, CacheGet(cache, a, b)))])
                          ELSE [state |-> state, pair |-> <<a, b>>]
        ELSE IF Len(internal.runs) = 0
        THEN [state |-> state, pair |-> NoPair]
        ELSE IF Len(internal.runs) = 1
        THEN [state |-> [state EXCEPT !.internal.result = internal.runs[1]],
              pair |-> NoPair]
        ELSE LET left == internal.runs[1]
                 right == internal.runs[2]
             IN  requestNextPairPushFront(
                   [state EXCEPT !.internal.runs = SubSeq(@, 3, Len(@)),
                                 !.internal.stack = Append(@, NewFrame(left, right))])

\* requestNextPair concatenating the last run onto internal.result, not
\* assigning it.
RECURSIVE requestNextPairAppendResult(_)
requestNextPairAppendResult(state) ==
    LET internal == state.internal
        cache == createComparisonCache(state.cache)
    IN  IF Len(internal.stack) > 0
        THEN LET frame == Top(internal.stack)
             IN  IF FrameComplete(frame)
                 THEN LET drained == DrainFrame(frame)
                      IN  requestNextPairAppendResult(
                            [state EXCEPT !.internal.stack = Pop(@),
                                          !.internal.runs = Append(@, drained.merged)])
                 ELSE LET a == At(frame.left, frame.leftIdx)
                          b == At(frame.right, frame.rightIdx)
                      IN  IF CacheHas(cache, a, b)
                          THEN requestNextPairAppendResult(
                                 [state EXCEPT !.internal.stack =
                                     ReplaceTop(@, advanceFrame(frame, CacheGet(cache, a, b)))])
                          ELSE [state |-> state, pair |-> <<a, b>>]
        ELSE IF Len(internal.runs) = 0
        THEN [state |-> state, pair |-> NoPair]
        ELSE IF Len(internal.runs) = 1
        THEN [state |-> [state EXCEPT !.internal.result = @ \o internal.runs[1]],
              pair |-> NoPair]
        ELSE LET left == internal.runs[1]
                 right == internal.runs[2]
             IN  requestNextPairAppendResult(
                   [state EXCEPT !.internal.runs = SubSeq(@, 3, Len(@)),
                                 !.internal.stack = Append(@, NewFrame(left, right))])

\* requestNextPair(state): the state it leaves behind and the pair (or null)
\* it returns. It mutates state.internal in place and calls itself until a
\* pair has no cached answer or nothing is left to merge.
RECURSIVE requestNextPair(_)
requestNextPair(state) ==
    LET internal == state.internal
        cache == createComparisonCache(state.cache)
    IN  IF Len(internal.stack) > 0
        THEN LET frame == Top(internal.stack)
             IN  IF FrameComplete(frame)
                 THEN LET drained == DrainFrame(frame)
                      IN  requestNextPair(
                            [state EXCEPT !.internal.stack = Pop(@),
                                          !.internal.runs = Append(@, drained.merged)])
                 ELSE LET a == At(frame.left, frame.leftIdx)
                          b == At(frame.right, frame.rightIdx)
                      IN  IF CacheHas(cache, a, b)
                          THEN requestNextPair(
                                 [state EXCEPT !.internal.stack =
                                     ReplaceTop(@, advanceFrame(frame, CacheGet(cache, a, b)))])
                          ELSE [state |-> state, pair |-> <<a, b>>]
        ELSE IF Len(internal.runs) = 0
        THEN [state |-> state, pair |-> NoPair]
        ELSE IF Len(internal.runs) = 1
        THEN [state |-> [state EXCEPT !.internal.result = internal.runs[1]],
              pair |-> NoPair]
        ELSE LET left == internal.runs[1]
                 right == internal.runs[2]
             IN  requestNextPair(
                   [state EXCEPT !.internal.runs = SubSeq(@, 3, Len(@)),
                                 !.internal.stack = Append(@, NewFrame(left, right))])

\* requestNextPair, the cache-hit step alone: the result the cache holds for
\* the current pair of the top frame is applied to the frame.
consumeCacheHit(state) ==
    LET cache == createComparisonCache(state.cache)
        frame == Top(state.internal.stack)
        a == At(frame.left, frame.leftIdx)
        b == At(frame.right, frame.rightIdx)
    IN  [state EXCEPT !.internal.stack =
            ReplaceTop(@, advanceFrame(frame, CacheGet(cache, a, b)))]

\* commitComparison counting the answer only: nothing stored, no cursor moved.
commitComparisonCountOnly(state, a, b, result) ==
    [state EXCEPT !.comparisonsAsked = @ + 1]

\* commitComparison returning comparisonsAsked as it was.
commitComparisonNoCount(state, a, b, result) ==
    LET cache == CacheSet(createComparisonCache(state.cache), a, b, result)
        internal == state.internal
        advanced ==
            IF Len(internal.stack) > 0
            THEN [internal EXCEPT !.stack =
                     ReplaceTop(@, advanceFrame(Top(internal.stack), result))]
            ELSE internal
    IN  [state EXCEPT !.cache = toRecord(cache),
                      !.internal = advanced]

\* commitComparison leaving the frame as it is.
commitComparisonNoAdvance(state, a, b, result) ==
    LET cache == CacheSet(createComparisonCache(state.cache), a, b, result)
    IN  [state EXCEPT !.comparisonsAsked = @ + 1,
                      !.cache = toRecord(cache)]

\* commitComparison returning the old cache record, not cache.toRecord().
commitComparisonCacheDropped(state, a, b, result) ==
    LET internal == state.internal
        advanced ==
            IF Len(internal.stack) > 0
            THEN [internal EXCEPT !.stack =
                     ReplaceTop(@, advanceFrame(Top(internal.stack), result))]
            ELSE internal
    IN  [state EXCEPT !.comparisonsAsked = @ + 1,
                      !.internal = advanced]

\* commitComparison(state, a, b, result)
commitComparison(state, a, b, result) ==
    LET cache == CacheSet(createComparisonCache(state.cache), a, b, result)
        internal == state.internal
        advanced ==
            IF Len(internal.stack) > 0
            THEN [internal EXCEPT !.stack =
                     ReplaceTop(@, advanceFrame(Top(internal.stack), result))]
            ELSE internal
    IN  [state EXCEPT !.comparisonsAsked = @ + 1,
                      !.cache = toRecord(cache),
                      !.internal = advanced]

isComplete(state) ==
    Len(state.internal.runs) = 1 /\ Len(state.internal.stack) = 0

finalize(state) ==
    IF Len(state.internal.runs) = 1 THEN state.internal.runs[1]
    ELSE state.internal.result

\* Math.round((current / total) * 100) for 0 <= current and 0 < total: the
\* nearest integer, a half rounded up.
RoundPercent(current, total) == (200 * current + total) \div (2 * total)

Min(x, y) == IF x < y THEN x ELSE y

\* getProgress without Math.min(100, percentage).
getProgressUnclamped(state) ==
    LET current == state.comparisonsAsked
        total == state.comparisonsTotal
        percentage == IF total > 0 THEN RoundPercent(current, total) ELSE 0
    IN  [current |-> current, total |-> total, percentage |-> percentage]

getProgress(state) ==
    LET current == state.comparisonsAsked
        total == state.comparisonsTotal
        percentage == IF total > 0 THEN RoundPercent(current, total) ELSE 0
    IN  [current |-> current, total |-> total, percentage |-> Min(100, percentage)]

\* resetWithCache starting the new session with an empty cache.
resetWithCacheEmpty(state, taskIds) == createSession(taskIds, EmptyRecord)

resetWithCache(state, taskIds) == createSession(taskIds, state.cache)

\* validateState(state) sees of a value only what kind of value it is and
\* what kind its internal, and the runs, stack and result of that, are; a
\* property that is missing reads as undefined.
Kinds == {"object", "array", "string", "number", "null", "undefined"}

\* The kinds of a SortingState of this model: createSession builds internal
\* with three arrays, requestNextPair assigns result one of the runs, and
\* commitComparison copies internal; JSON keeps objects and arrays.
KindsOf(state) ==
    [state |-> "object", internal |-> "object",
     runs |-> "array", stack |-> "array", result |-> "array"]

\* validateState without the test of result.
validateStateNoResult(v) ==
    IF v.state \in {"null", "undefined"} \/ v.state \notin {"object", "array"}
    THEN FALSE
    ELSE IF v.internal \in {"null", "undefined"}
    THEN FALSE
    ELSE v.runs = "array" /\ v.stack = "array"

validateState(v) ==
    IF v.state \in {"null", "undefined"} \/ v.state \notin {"object", "array"}
    THEN FALSE
    ELSE IF v.internal \in {"null", "undefined"}
    THEN FALSE
    ELSE v.runs = "array" /\ v.stack = "array" /\ v.result = "array"

\* ------------------------------------------------------------------------
\* storage/idb.ts, localStorageAdapter: JSON.parse(JSON.stringify(value)).
\* Numbers, strings, arrays and records of these come back as they were; an
\* undefined array element comes back as null.

JsonIds(array) ==
    [i \in 1 .. Len(array) |-> IF array[i] = UndefinedId THEN NullId ELSE array[i]]

JsonFrame(frame) ==
    [left |-> JsonIds(frame.left),
     right |-> JsonIds(frame.right),
     leftIdx |-> frame.leftIdx,
     rightIdx |-> frame.rightIdx,
     merged |-> JsonIds(frame.merged)]

JsonRoundTrip(state) ==
    [algo |-> state.algo,
     comparisonsAsked |-> state.comparisonsAsked,
     comparisonsTotal |-> state.comparisonsTotal,
     cache |-> {<<e[1], e[2]>> : e \in state.cache},
     internal |->
        [runs |-> [i \in 1 .. Len(state.internal.runs) |-> JsonIds(state.internal.runs[i])],
         stack |-> [i \in 1 .. Len(state.internal.stack) |-> JsonFrame(state.internal.stack[i])],
         result |-> JsonIds(state.internal.result)]]

\* ------------------------------------------------------------------------
\* The caller: one session driven by request / commit.

\* ---------------------------------------------------------------------
\* The store and the persistence hook (store, usePersistentStore.ts)
\* ---------------------------------------------------------------------

\* The lists of the store's initialState: none. Other contents are 1 .. MaxData.
EmptyLists == 0

\* What storage holds under STORAGE_KEY, and what a debounce timer will save:
\* nothing, or <<lists>>.
NothingSaved == <<>>
NoTimer == <<>>
NoWrite == [by |-> "none", hydrated |-> FALSE, lost |-> FALSE]

\* The application before the component using the hook has mounted: the
\* store is initialState, the module flag initialized is false, nothing is
\* subscribed; storage holds saved and isStorageAvailable() is available.
PersistenceAt(saved, available) ==
    [hydrated |-> FALSE, lists |-> EmptyLists,
     initialized |-> FALSE, reading |-> FALSE,
     mounted |-> FALSE, rendered |-> FALSE, subscribed |-> FALSE,
     debounceTimer |-> NoTimer,
     storage |-> saved, available |-> available,
     mounts |-> 0, hydrations |-> 0, lastWrite |-> NoWrite]

\* The store's set: the subscriber, when there is one, clears the timer and
\* sets a new one that will save the lists of the new state.
StoreSet(p) ==
    IF p.subscribed THEN [p EXCEPT !.debounceTimer = <<p.lists>>] ELSE p

\* The second effect of the hook, run with the hydrated flag the component
\* rendered with: it subscribes when that flag is true and storage is
\* available.
SubscribeEffect(p) ==
    [p EXCEPT !.subscribed = p.rendered /\ p.available]

\* The cleanup of the second effect: unsubscribe and clear the timer.
SubscribeCleanup(p) ==
    [p EXCEPT !.subscribed = FALSE, !.debounceTimer = NoTimer]

\* The first effect of the hook: nothing when initialized is set; otherwise
\* it sets the flag and starts hydrateFromStorage, which sets hydrated at
\* once when storage is not available and otherwise awaits get(STORAGE_KEY).
HydrateEffect(p) ==
    IF p.initialized THEN p
    ELSE LET started == [p EXCEPT !.initialized = TRUE, !.hydrations = @ + 1]
         IN  IF ~p.available
             THEN StoreSet([started EXCEPT !.hydrated = TRUE])
             ELSE [started EXCEPT !.reading = TRUE]

\* set(STORAGE_KEY, {lists, activeListId}) by writer: storage holds the lists
\* written; the write is recorded with the hydrated flag of the store at
\* that moment, and whether an empty store that was not hydrated replaced
\* saved lists.
StorageSet(p, writer, lists) ==
    [p EXCEPT !.storage = <<lists>>,
              !.lastWrite = [by |-> writer, hydrated |-> p.hydrated,
                             lost |-> (/\ ~p.hydrated
                                       /\ lists = EmptyLists
                                       /\ p.storage # NothingSaved
                                       /\ p.storage # <<EmptyLists>>)]]

VARIABLES
    state,      \* the SortingState the caller threads through the calls
    taskIds,    \* the list the current session was created from
    seed,       \* the cache record the current session was created with
    pending,    \* what the last requestNextPair returned (NoPair: null)
    phase,      \* "idle" | "awaiting" | "done"
    history,    \* the <<a, b, result>> committed in the current session
    restarted,  \* the session was started by resetWithCache
    misused,    \* a commit has broken the protocol
    resume,     \* the session resumed from a serialized copy, once one is taken
    cacheMap,   \* the Map of one cache object used on its own
    lastOp,     \* the last operation on that cache object
    persistence \* the store, the storage and the persistence hook of the application

sessionVars == <<state, taskIds, seed, pending, phase, history, restarted, misused, resume>>

cacheVars == <<cacheMap, lastOp>>

vars == <<state, taskIds, seed, pending, phase, history, restarted, misused, resume,
          cacheMap, lastOp, persistence>>

NoOp == [op |-> "create", a |-> 0, b |-> 0, result |-> 0,
         record |-> EmptyRecord, before |-> EmptyMap, ids |-> <<>>]

\* The lists of n distinct ids: the ids 1..n in any order.
ListsOf(n) == {p \in [1 .. n -> 1 .. n] : \A i, j \in 1 .. n : i # j => p[i] # p[j]}

ListsBySize == [n \in 0 .. MaxItems |-> ListsOf(n)]

Lists(n) == ListsBySize[n]

ListsUpTo(n) == UNION {Lists(k) : k \in 0 .. n}

NoResume ==
    [taken |-> FALSE, mid |-> FALSE, awaiting |-> FALSE,
     state |-> createSession(<<>>, EmptyRecord), pending |-> NoPair]

InitWith(lists) ==
    \E ids \in lists :
        /\ state = createSession(ids, EmptyRecord)
        /\ taskIds = ids
        /\ seed = EmptyRecord
        /\ pending = NoPair
        /\ phase = "idle"
        /\ history = <<>>
        /\ restarted = FALSE
        /\ misused = FALSE
        /\ resume = NoResume
        /\ cacheMap = createComparisonCache(EmptyRecord)
        /\ lastOp = NoOp
    /\ persistence = PersistenceAt(NothingSaved, TRUE)
        /\ persistence = PersistenceAt(NothingSaved, TRUE)

Init == InitWith(ListsUpTo(MaxItems))

\* The caller asks for the next pair; a resumed copy is asked as well.
Request ==
    LET r == requestNextPair(state)
        c == requestNextPair(resume.state)
    IN  /\ state' = r.state
        /\ pending' = r.pair
        /\ phase' = IF r.pair = NoPair THEN "done" ELSE "awaiting"
        /\ resume' = IF resume.taken
                     THEN [resume EXCEPT !.state = c.state, !.pending = c.pair]
                     ELSE resume
        /\ UNCHANGED <<taskIds, seed, history, restarted, misused, cacheMap, lastOp, persistence>>

\* The human answers the pending pair and the caller commits the answer; a
\* resumed copy gets the same answer for the pair it returned.
Commit ==
    /\ phase = "awaiting"
    /\ \E result \in CompareResults :
        /\ state' = commitComparison(state, pending[1], pending[2], result)
        /\ history' = Append(history, <<pending[1], pending[2], result>>)
        /\ resume' = IF resume.taken /\ resume.pending # NoPair
                     THEN [resume EXCEPT
                             !.state = commitComparison(resume.state, resume.pending[1],
                                                        resume.pending[2], result),
                             !.pending = NoPair]
                     ELSE resume
    /\ pending' = NoPair
    /\ phase' = "idle"
    /\ UNCHANGED <<taskIds, seed, restarted, misused, cacheMap, lastOp, persistence>>

\* The state is written to storage and the session goes on from what is read
\* back; a caller resuming while a pair was unanswered asks for it again.
Snapshot ==
    /\ ~resume.taken
    /\ LET parsed == JsonRoundTrip(state)
           c == IF phase = "awaiting" THEN requestNextPair(parsed)
                ELSE [state |-> parsed, pair |-> NoPair]
       IN  resume' = [taken |-> TRUE,
                      mid |-> (state.comparisonsAsked > 0 /\ phase # "done"),
                      awaiting |-> (phase = "awaiting"),
                      state |-> c.state, pending |-> c.pair]
    /\ UNCHANGED <<state, taskIds, seed, pending, phase, history, restarted, misused,
                   cacheMap, lastOp, persistence>>

\* resetWithCache: a new session over a list, keeping the answers learned.
\* One restart is followed.
Reset ==
    /\ ~restarted
    /\ \E ids \in ListsUpTo(SmallItems) :
        /\ state' = resetWithCache(state, ids)
        /\ taskIds' = ids
    /\ seed' = state.cache
    /\ pending' = NoPair
    /\ phase' = "idle"
    /\ history' = <<>>
    /\ restarted' = TRUE
    /\ UNCHANGED <<misused, resume, cacheMap, lastOp, persistence>>

\* A commit outside the protocol: no pair is pending, or the pair committed
\* is not the pending one.
BadCommit ==
    /\ ~misused
    /\ \E a, b \in {taskIds[i] : i \in 1 .. Len(taskIds)}, result \in CompareResults :
        /\ a # b
        /\ phase # "awaiting" \/ <<a, b>> # pending
        /\ state' = commitComparison(state, a, b, result)
    /\ pending' = NoPair
    /\ phase' = "idle"
    /\ misused' = TRUE
    /\ UNCHANGED <<taskIds, seed, history, restarted, resume, cacheMap, lastOp, persistence>>

Next == Request \/ Commit

Spec == Init /\ [][Next]_vars

InitSmall == InitWith(ListsUpTo(SmallItems))

\* Sessions that are suspended and resumed from storage.
NextResume == Request \/ Commit \/ Snapshot

SpecResume == InitSmall /\ [][NextResume]_vars

\* Sessions restarted with the cache of the one before.
NextRefine == Request \/ Commit \/ Reset

SpecRefine == InitSmall /\ [][NextRefine]_vars

\* Callers that break the request / commit protocol.
NextMisuse == Request \/ Commit \/ BadCommit

SpecMisuse == InitSmall /\ [][NextMisuse]_vars

\* ------------------------------------------------------------------------
\* One cache object used on its own, over the ids 1..SmallItems.

CacheIds == 1 .. SmallItems

\* The records a cache is loaded from: what toRecord gives for a cache with
\* at most one answer.
ImportRecords ==
    {EmptyRecord} \cup
    {toRecord(CacheSet(EmptyMap, p[1], p[2], r)) :
        p \in {q \in CacheIds \X CacheIds : q[1] # q[2]}, r \in CompareResults}

CSet ==
    /\ \E a \in CacheIds, b \in CacheIds, r \in CompareResults :
        /\ a # b
        /\ cacheMap' = CacheSet(cacheMap, a, b, r)
        /\ lastOp' = [NoOp EXCEPT !.op = "set", !.a = a, !.b = b, !.result = r,
                                   !.before = cacheMap]
    /\ UNCHANGED <<sessionVars, persistence>>

CClear ==
    /\ cacheMap' = CacheClear(cacheMap)
    /\ lastOp' = [NoOp EXCEPT !.op = "clear"]
    /\ UNCHANGED <<sessionVars, persistence>>

\* cache.fromRecord(record) on a cache that holds anything.
CFromRecord ==
    /\ \E record \in ImportRecords :
        /\ cacheMap' = fromRecord(cacheMap, record)
        /\ lastOp' = [NoOp EXCEPT !.op = "fromRecord", !.record = record]
    /\ UNCHANGED <<sessionVars, persistence>>

\* cache.fromRecord(cache.toRecord()): the cache is loaded with its own export.
CReload ==
    /\ cacheMap' = fromRecord(cacheMap, toRecord(cacheMap))
    /\ lastOp' = [NoOp EXCEPT !.op = "reload", !.before = cacheMap]
    /\ UNCHANGED <<sessionVars, persistence>>

\* createComparisonCache(cache.toRecord()): a new cache from the export.
CRecreate ==
    /\ cacheMap' = createComparisonCache(toRecord(cacheMap))
    /\ lastOp' = [NoOp EXCEPT !.op = "recreate", !.before = cacheMap]
    /\ UNCHANGED <<sessionVars, persistence>>

InitCache == InitWith({<<>>})

NextCache == CSet \/ CClear \/ CFromRecord \/ CReload \/ CRecreate

SpecCache == InitCache /\ [][NextCache]_vars

\* ------------------------------------------------------------------------
\* Sessions created with an existing cache: createSession(taskIds, record)
\* for a record of at most one answer.

InitSeeded ==
    \E ids \in ListsUpTo(SmallItems), record \in ImportRecords :
        /\ state = createSession(ids, record)
        /\ taskIds = ids
        /\ seed = record
        /\ pending = NoPair
        /\ phase = "idle"
        /\ history = <<>>
        /\ restarted = FALSE
        /\ misused = FALSE
        /\ resume = NoResume
        /\ cacheMap = createComparisonCache(EmptyRecord)
        /\ lastOp = NoOp
    /\ persistence = PersistenceAt(NothingSaved, TRUE)
        /\ persistence = PersistenceAt(NothingSaved, TRUE)

SpecSeeded == InitSeeded /\ [][Next]_vars

\* ------------------------------------------------------------------------
\* Sessions whose caller commits answers without asking: commitComparison
\* checks nothing and counts every call, so comparisonsAsked can pass
\* comparisonsTotal.

CommitUnasked ==
    /\ state.comparisonsAsked < MaxAsked
    /\ \E a, b \in 1 .. 2, result \in CompareResults :
        /\ a # b
        /\ state' = commitComparison(state, a, b, result)
    /\ UNCHANGED <<taskIds, seed, pending, phase, history, restarted, misused, resume,
                   cacheMap, lastOp, persistence>>

NextProgress == CommitUnasked

SpecProgress == Init /\ [][NextProgress]_vars

\* ------------------------------------------------------------------------
\* applyTransitiveClosure on its own: one pass over a cache of at most
\* MaxEntries answers about the ids 1..MaxItems.

\* The keys a cache can hold: `${a}|${b}` with a < b.
CanonicalKeys == {q \in TaskIds \X TaskIds : q[1] < q[2]}

ClosureCaches ==
    UNION {[K -> CompareResults] :
            K \in {X \in SUBSET CanonicalKeys : Cardinality(X) <= MaxEntries}}

\* The lists the pass is given: the ids 1..n, ascending and descending.
ClosureLists ==
    UNION {{[x \in 1 .. n |-> x], [x \in 1 .. n |-> n + 1 - x]} : n \in 0 .. MaxItems}

InitClosure ==
    /\ state = createSession(<<>>, EmptyRecord)
    /\ taskIds = <<>>
    /\ seed = EmptyRecord
    /\ pending = NoPair
    /\ phase = "idle"
    /\ history = <<>>
    /\ restarted = FALSE
    /\ misused = FALSE
    /\ resume = NoResume
    /\ cacheMap \in ClosureCaches
    /\ lastOp = NoOp
    /\ persistence = PersistenceAt(NothingSaved, TRUE)

CClosure ==
    /\ lastOp.op = "create"
    /\ \E ids \in ClosureLists :
        /\ cacheMap' = applyTransitiveClosure(cacheMap, ids)
        /\ lastOp' = [NoOp EXCEPT !.op = "closure", !.before = cacheMap, !.ids = ids]
    /\ UNCHANGED <<sessionVars, persistence>>

NextClosure == CClosure

SpecClosure == InitClosure /\ [][NextClosure]_vars

\* ---------------------------------------------------------------------
\* The persistence hook at work
\* ---------------------------------------------------------------------

\* The application starts with nothing or some lists saved, storage
\* available or not.
InitPersistence ==
    /\ state = createSession(<<>>, EmptyRecord)
    /\ taskIds = <<>>
    /\ seed = EmptyRecord
    /\ pending = NoPair
    /\ phase = "idle"
    /\ history = <<>>
    /\ restarted = FALSE
    /\ misused = FALSE
    /\ resume = NoResume
    /\ cacheMap = createComparisonCache(EmptyRecord)
    /\ lastOp = NoOp
    /\ \E saved \in {NothingSaved} \cup {<<v>> : v \in 1 .. MaxData},
          available \in BOOLEAN :
        /\ saved # NothingSaved => available
        /\ persistence = PersistenceAt(saved, available)

\* The component using the hook mounts: it renders with the store's hydrated
\* flag, then its two effects run in order.
Mount ==
    /\ ~persistence.mounted
    /\ persistence.mounts < MaxMounts
    /\ persistence' =
          SubscribeEffect(HydrateEffect(
              [persistence EXCEPT !.mounted = TRUE, !.mounts = @ + 1,
                                  !.rendered = persistence.hydrated]))
    /\ UNCHANGED <<sessionVars, cacheVars>>

\* The component unmounts: the cleanup of the second effect runs.
Unmount ==
    /\ persistence.mounted
    /\ persistence' = SubscribeCleanup([persistence EXCEPT !.mounted = FALSE])
    /\ UNCHANGED <<sessionVars, cacheVars>>

\* The store's hydrated flag has changed: the component renders again and the
\* second effect, which depends on the flag, is cleaned up and run again.
Render ==
    /\ persistence.mounted
    /\ persistence.rendered # persistence.hydrated
    /\ persistence' =
          SubscribeEffect(
              [SubscribeCleanup(persistence) EXCEPT !.rendered = persistence.hydrated])
    /\ UNCHANGED <<sessionVars, cacheVars>>

\* get(STORAGE_KEY) resolves, with what storage holds or, after a storage
\* error, with undefined: saved lists are migrated (the lists are kept) and
\* loaded by hydrate, which sets hydrated; otherwise setHydrated(true).
ReadDone ==
    /\ persistence.reading
    /\ \E found \in BOOLEAN :
        LET saved == IF found THEN persistence.storage ELSE NothingSaved
            read == [persistence EXCEPT !.reading = FALSE]
        IN  persistence' =
               IF saved # NothingSaved
               THEN StoreSet([read EXCEPT !.lists = saved[1], !.hydrated = TRUE])
               ELSE StoreSet([read EXCEPT !.hydrated = TRUE])
    /\ UNCHANGED <<sessionVars, cacheVars>>

\* A store action of the user interface (createList, updateTask, ...)
\* changes the lists.
Edit ==
    /\ \E v \in 1 .. MaxData :
        /\ v # persistence.lists
        /\ persistence' = StoreSet([persistence EXCEPT !.lists = v])
    /\ UNCHANGED <<sessionVars, cacheVars>>

\* The debounce timer fires: the lists it holds are written to storage.
TimerFire ==
    /\ persistence.debounceTimer # NoTimer
    /\ persistence' =
          StorageSet([persistence EXCEPT !.debounceTimer = NoTimer],
                     "subscription", persistence.debounceTimer[1])
    /\ UNCHANGED <<sessionVars, cacheVars>>

\* forceSave(): the lists of the store are written when storage is available.
ForceSave ==
    /\ persistence.available
    /\ persistence' = StorageSet(persistence, "forceSave", persistence.lists)
    /\ UNCHANGED <<sessionVars, cacheVars>>

NextPersistence ==
    Mount \/ Unmount \/ Render \/ ReadDone \/ Edit \/ TimerFire \/ ForceSave

SpecPersistence == InitPersistence /\ [][NextPersistence]_vars


\* ------------------------------------------------------------------------
\* Properties

N == Len(taskIds)

Asked == state.comparisonsAsked

\* A strict total order over the ids of the list, as the rank R[x] of each
\* id x (1: most important), and the list of the ids by rank.
Orders == Lists(N)

OrderOf(R) == [i \in 1 .. N |-> CHOOSE x \in 1 .. N : R[x] = i]

\* The answer <<a, b, result>> is the one the order gives: greater when a
\* ranks above b, else less.
AnswerFollows(R, h) ==
    h[3] = IF R[h[1]] < R[h[2]] THEN 1 ELSE -1

\* No answer committed in the current session is a tie.
StrictHistory == \A i \in 1 .. Len(history) : history[i][3] # 0

\* Every answer committed in the current session follows the order.
HistoryFollows(R) == \A i \in 1 .. Len(history) : AnswerFollows(R, history[i])

\* How often v occurs in a sequence.
Count(array, v) == Cardinality({i \in 1 .. Len(array) : array[i] = v})

RECURSIVE Flatten(_)
Flatten(arrays) ==
    IF arrays = <<>> THEN <<>> ELSE Head(arrays) \o Flatten(Tail(arrays))

\* What a frame holds: its output and the parts of its runs not yet consumed.
FrameHeld(frame) ==
    frame.merged
        \o SubSeq(frame.left, frame.leftIdx + 1, Len(frame.left))
        \o SubSeq(frame.right, frame.rightIdx + 1, Len(frame.right))

\* Every id held by the run queue and the merge frames of a state.
Held(s) ==
    Flatten(s.internal.runs)
        \o Flatten([i \in 1 .. Len(s.internal.stack) |-> FrameHeld(s.internal.stack[i])])

\* Two sequences hold the same values, each as often.
SameMultiset(x, y) ==
    /\ Len(x) = Len(y)
    /\ \A i \in 1 .. Len(y) : Count(x, y[i]) = Count(y, y[i])

IdSet(ids) == {ids[i] : i \in 1 .. Len(ids)}

\* The keys of a record that name a pair of ids of the list.
SessionKeys(record, ids) ==
    {k \in RecordKeys(record) : k[1] # k[2] /\ k[1] \in IdSet(ids) /\ k[2] \in IdSet(ids)}

\* C1: with an empty initial cache and every answer given by a strict total
\* order T, once requestNextPair has returned done, finalize returns T, the
\* most important id first.
C1_SortsByTheOrder ==
    (phase = "done" /\ seed = EmptyRecord /\ N >= 2 /\ StrictHistory) =>
        \A R \in Orders : HistoryFollows(R) => finalize(state) = OrderOf(R)

C1_Witness ==
    /\ phase = "done"
    /\ seed = EmptyRecord
    /\ N >= 3
    /\ Len(history) >= 3
    /\ \E R \in Orders :
        HistoryFollows(R) /\ finalize(state) = OrderOf(R) /\ OrderOf(R) # taskIds

\* C2: a session resumed from a JSON copy of the state, given the same
\* answers, returns the same pairs, counts the same comparisons and finalizes
\* to the same order as the session that was never interrupted.
C2_ResumeEquivalent ==
    resume.taken =>
        /\ resume.pending = pending
        /\ resume.state.comparisonsAsked = state.comparisonsAsked
        /\ finalize(resume.state) = finalize(state)

C2_Witness ==
    /\ resume.taken
    /\ resume.mid
    /\ resume.awaiting
    /\ phase = "done"
    /\ Len(history) >= 3
    /\ finalize(resume.state) # taskIds

\* C3: a pair returned by requestNextPair has no entry in the session cache,
\* and none in the cache the session was started with.
C3_NeverAsksCached ==
    phase = "awaiting" =>
        /\ <<pending[1], pending[2]>> \notin RecordKeys(state.cache)
        /\ <<pending[2], pending[1]>> \notin RecordKeys(state.cache)
        /\ <<pending[1], pending[2]>> \notin RecordKeys(seed)
        /\ <<pending[2], pending[1]>> \notin RecordKeys(seed)

\* A restarted session that got past a cached pair without asking.
C3_Witness ==
    /\ phase = "awaiting"
    /\ restarted
    /\ history = <<>>
    /\ Len(state.internal.stack) = 1
    /\ Len(Top(state.internal.stack).merged) > 0
    /\ SessionKeys(seed, taskIds) # {}

\* C4: a commit that breaks the protocol leaves the session state unchanged.
C4_BadCommitRejected ==
    [][(misused' /\ ~misused) => state' = state]_vars

\* C5: whatever the answers, a commit answers a pair of the list that had no
\* entry yet, so a session takes at most n(n-1)/2 commits before
\* requestNextPair returns done.
C5_Terminates ==
    /\ Asked = Len(history)
    /\ Asked = Cardinality(SessionKeys(state.cache, taskIds) \ SessionKeys(seed, taskIds))
    /\ 2 * Asked <= N * (N - 1)
    /\ (phase = "awaiting" => 2 * (Asked + 1) <= N * (N - 1))

\* A finished session whose cache holds a cycle a > b > c > a.
C5_Witness ==
    /\ phase = "done"
    /\ Asked >= 1
    /\ LET cache == createComparisonCache(state.cache)
       IN  \E a, b, c \in 1 .. N :
            /\ CacheGet(cache, a, b) = 1
            /\ CacheGet(cache, b, c) = 1
            /\ CacheGet(cache, c, a) = 1

\* C6: the run queue and the frames hold exactly the ids of the input list,
\* each once; after done, finalize returns a permutation of the list.
C6_NoItemLostOrDuplicated ==
    /\ SameMultiset(Held(state), taskIds)
    /\ phase = "done" => SameMultiset(finalize(state), taskIds)

C6_Witness ==
    /\ restarted
    /\ SessionKeys(seed, taskIds) # {}
    /\ Len(history) >= 1
    /\ Len(state.internal.stack) = 1
    /\ Top(state.internal.stack).leftIdx >= 1
    /\ Top(state.internal.stack).rightIdx >= 1
    /\ N >= 3

\* C7: with an empty initial cache and answers given by a total order, the
\* comparisons asked are at most n*log2(n) (2^asked <= n^n), and so at most
\* comparisonsTotal.
C7_CountWithinEstimate ==
    (seed = EmptyRecord /\ StrictHistory /\ \E R \in Orders : HistoryFollows(R)) =>
        /\ Pow(2, Asked) <= Pow(N, N)
        /\ Asked <= state.comparisonsTotal

C7_Witness ==
    /\ phase = "done"
    /\ N >= 3
    /\ Asked > N
    /\ \E R \in Orders : HistoryFollows(R)

\* The inverse of a comparison result.
Inverse(r) == IF r = Absent THEN Absent ELSE 0 - r

\* C8: after set(a, b, r), get(a, b) is r and get(b, a) its inverse; in every
\* cache state get(a, b) and get(b, a) are mutually inverse or both
\* undefined, and has(a, b) = has(b, a).
C8_CacheSymmetric ==
    /\ lastOp.op = "set" =>
        /\ CacheGet(cacheMap, lastOp.a, lastOp.b) = lastOp.result
        /\ CacheGet(cacheMap, lastOp.b, lastOp.a) = Inverse(lastOp.result)
    /\ \A a, b \in CacheIds :
        a # b =>
            /\ CacheGet(cacheMap, b, a) = Inverse(CacheGet(cacheMap, a, b))
            /\ CacheHas(cacheMap, a, b) = CacheHas(cacheMap, b, a)

C8_Witness ==
    /\ lastOp.op = "set"
    /\ lastOp.a > lastOp.b
    /\ lastOp.result = 1
    /\ CacheGet(cacheMap, lastOp.b, lastOp.a) = -1
    /\ Cardinality(DOMAIN cacheMap) >= 2

\* Two caches answer get and has alike for every ordered pair of ids.
SameAnswers(m1, m2) ==
    \A a, b \in CacheIds :
        /\ CacheGet(m1, a, b) = CacheGet(m2, a, b)
        /\ CacheHas(m1, a, b) = CacheHas(m2, a, b)

\* C9: a cache loaded from (or created from) its own export answers as
\* before; fromRecord leaves exactly the entries of the record.
C9_RoundTrip ==
    /\ lastOp.op \in {"reload", "recreate"} => SameAnswers(cacheMap, lastOp.before)
    /\ lastOp.op = "fromRecord" =>
        /\ DOMAIN cacheMap = RecordKeys(lastOp.record)
        /\ \A k \in DOMAIN cacheMap : cacheMap[k] = RecordValue(lastOp.record, k)

C9_Witness ==
    /\ lastOp.op = "reload"
    /\ Cardinality(DOMAIN lastOp.before) >= 2
    /\ \E k \in DOMAIN lastOp.before : lastOp.before[k] = 0
    /\ \E k \in DOMAIN lastOp.before : lastOp.before[k] = -1

\* C10: a session over no item or one item is done at the first
\* requestNextPair, with no pair returned and both counters 0.
C10_DegenerateDone ==
    N <= 1 =>
        /\ phase \in {"idle", "done"}
        /\ pending = NoPair
        /\ state.comparisonsAsked = 0
        /\ state.comparisonsTotal = 0

C10_Witness ==
    /\ N = 1
    /\ phase = "done"
    /\ finalize(state) = taskIds

\* C11: requestNextPair returns done exactly when the session is terminal
\* afterwards: after a call that returned done isComplete is true (one run in
\* the queue, no frame), also for a session over no item or one item; after
\* a call that returned a pair it is false.
C11_DoneIffComplete ==
    /\ phase = "done" => isComplete(state)
    /\ phase = "awaiting" => ~isComplete(state)

\* C12: once requestNextPair has returned done, a further call returns done
\* again and leaves the run queue, the stack, the result, the cache and
\* comparisonsAsked as they were, and finalize returns the same sequence.
C12_DoneIdempotent ==
    phase = "done" =>
        LET again == requestNextPair(state)
        IN  /\ again.pair = NoPair
            /\ again.state = state
            /\ finalize(again.state) = finalize(state)

\* A finished session of three items or more that is asked again.
C12_Witness ==
    /\ phase = "done"
    /\ N >= 3
    /\ Asked >= 2
    /\ requestNextPair(state).pair = NoPair
    /\ finalize(requestNextPair(state).state) # taskIds

\* C13: for a list [A, B, C] and an empty cache the first pair returned is
\* (A, B); after greater is committed for it, the next pair returned is
\* (C, A): C against the head of the merged run of A and B.
C13_ScenarioPairs ==
    (N = 3 /\ seed = EmptyRecord) =>
        /\ (phase = "awaiting" /\ history = <<>>) =>
                pending = <<taskIds[1], taskIds[2]>>
        /\ Len(history) >= 1 =>
                (history[1][1] = taskIds[1] /\ history[1][2] = taskIds[2])
        /\ (phase = "awaiting" /\ Len(history) = 1 /\ history[1][3] = 1) =>
                pending = <<taskIds[3], taskIds[1]>>

C13_Witness ==
    /\ N = 3
    /\ phase = "awaiting"
    /\ history = <<<<taskIds[1], taskIds[2], 1>>>>
    /\ pending = <<taskIds[3], taskIds[1]>>
    /\ state.internal.runs = <<>>

\* The position of an id in a sequence that holds it.
Pos(array, v) == CHOOSE i \in 1 .. Len(array) : array[i] = v

\* A sequence is an order of the list: it holds every id of the list once.
IsOrderOfList(array) ==
    Len(array) = N /\ IdSet(array) = IdSet(taskIds)

\* An order agrees with the answer <<a, b, result>>: a comes before b when
\* the answer is greater, after b when it is less.
OrderAgrees(array, h) ==
    /\ h[3] = 1 => Pos(array, h[1]) < Pos(array, h[2])
    /\ h[3] = -1 => Pos(array, h[1]) > Pos(array, h[2])

\* The list [A, B, C] with two answers committed and no request made since.
TwoAnswersIn == N = 3 /\ seed = EmptyRecord /\ phase = "idle" /\ Len(history) = 2

\* C14 as stated: for a list [A, B, C], once the answer to (A, B) and the
\* answer to the second pair are committed, whatever the second answer, the
\* next requestNextPair returns done and finalize returns an order of the
\* three ids that agrees with both answers.
C14_DoneAfterTwoAnswers ==
    TwoAnswersIn =>
        LET next == requestNextPair(state)
        IN  /\ next.pair = NoPair
            /\ IsOrderOfList(finalize(next.state))
            /\ \A i \in 1 .. 2 : OrderAgrees(finalize(next.state), history[i])

\* C14, amended: when the second answer is greater or equal the next
\* requestNextPair returns done and finalize then returns C followed by the
\* merged run of A and B; when it is less, requestNextPair returns a third
\* pair, C against the other id. Before that call finalize returns the empty
\* result. A session of three ids is done after two or three answers, with
\* an order that agrees with every answer.
C14_ScenarioEnd ==
    /\ TwoAnswersIn =>
        LET next == requestNextPair(state)
            head == history[2][2]
            last == IF head = taskIds[1] THEN taskIds[2] ELSE taskIds[1]
        IN  /\ finalize(state) = <<>>
            /\ history[2][1] = taskIds[3]
            /\ IF history[2][3] = -1
               THEN next.pair = <<taskIds[3], last>>
               ELSE /\ next.pair = NoPair
                    /\ finalize(next.state) = <<taskIds[3], head, last>>
                    /\ \A i \in 1 .. 2 : OrderAgrees(finalize(next.state), history[i])
    /\ (N = 3 /\ seed = EmptyRecord /\ phase = "done") =>
        /\ Len(history) \in {2, 3}
        /\ IsOrderOfList(finalize(state))
        /\ \A i \in 1 .. Len(history) : OrderAgrees(finalize(state), history[i])

\* Three ids finished with three answers: the second answer was less.
C14_Witness ==
    /\ N = 3
    /\ phase = "done"
    /\ Len(history) = 3
    /\ history[2][3] = -1
    /\ history[3][1] = taskIds[3]

\* The state with the result r recorded for (a, b) and nothing else done.
WithCached(s, a, b, r) ==
    [s EXCEPT !.cache = toRecord(CacheSet(createComparisonCache(s.cache), a, b, r))]

\* C15: commitComparison for the pending pair leaves the run queue and the
\* frames as the cache-hit step of requestNextPair does when the cache
\* already holds the result, and the session goes on alike from both; the
\* cache then returns the result for get(a, b) and comparisonsAsked is
\* larger by 1.
C15_CommitAsCacheHit ==
    phase = "awaiting" =>
        \A r \in CompareResults :
            LET a == pending[1]
                b == pending[2]
                committed == commitComparison(state, a, b, r)
                cached == WithCached(state, a, b, r)
                afterCommit == requestNextPair(committed)
                afterHit == requestNextPair(cached)
            IN  /\ committed.internal = consumeCacheHit(cached).internal
                /\ afterCommit.pair = afterHit.pair
                /\ afterCommit.state.internal = afterHit.state.internal
                /\ committed.cache = cached.cache
                /\ CacheGet(createComparisonCache(committed.cache), a, b) = r
                /\ committed.comparisonsAsked = state.comparisonsAsked + 1

\* A session awaiting an answer after which a pair of the cache it was
\* created with is passed without asking.
C15_Witness ==
    /\ phase = "awaiting"
    /\ seed # EmptyRecord
    /\ N >= 3
    /\ \E r \in CompareResults :
        LET committed == commitComparison(state, pending[1], pending[2], r)
            frame == Top(committed.internal.stack)
        IN  /\ ~FrameComplete(frame)
            /\ CacheHas(createComparisonCache(committed.cache),
                        At(frame.left, frame.leftIdx), At(frame.right, frame.rightIdx))

\* The frame took its left element a: a is appended to the output and the
\* left cursor alone moves on by one.
TookLeft(before, after, a) ==
    after = [before EXCEPT !.merged = Append(@, a), !.leftIdx = @ + 1]

\* The frame took its right element b.
TookRight(before, after, b) ==
    after = [before EXCEPT !.merged = Append(@, b), !.rightIdx = @ + 1]

\* C16: with a the left and b the right element of the frame's current pair,
\* a result of greater or equal appends a and moves the left cursor alone by
\* one, a result of less appends b and moves the right cursor alone by one;
\* the frames below and the run queue stay; the rule is the same for a
\* result that is committed and for one that is found in the cache.
C16_TieTakesLeft ==
    phase = "awaiting" =>
        \A r \in CompareResults :
            LET a == pending[1]
                b == pending[2]
                frame == Top(state.internal.stack)
                committed == commitComparison(state, a, b, r).internal
                hit == consumeCacheHit(WithCached(state, a, b, r)).internal
            IN  /\ a = At(frame.left, frame.leftIdx)
                /\ b = At(frame.right, frame.rightIdx)
                /\ IF r = 1 \/ r = 0
                   THEN /\ TookLeft(frame, Top(committed.stack), a)
                        /\ TookLeft(frame, Top(hit.stack), a)
                   ELSE /\ TookRight(frame, Top(committed.stack), b)
                        /\ TookRight(frame, Top(hit.stack), b)
                /\ committed.runs = state.internal.runs
                /\ Pop(committed.stack) = Pop(state.internal.stack)
                /\ hit.runs = state.internal.runs
                /\ Pop(hit.stack) = Pop(state.internal.stack)

\* A tie has just been committed in a frame with both cursors moved: the
\* left element of the pair is the last of the output.
C16_Witness ==
    /\ phase = "idle"
    /\ Len(history) >= 3
    /\ history[Len(history)][3] = 0
    /\ Len(state.internal.stack) = 1
    /\ LET frame == Top(state.internal.stack)
       IN  /\ frame.leftIdx >= 1
           /\ frame.rightIdx >= 1
           /\ frame.merged[Len(frame.merged)] = history[Len(history)][1]
           /\ At(frame.left, frame.leftIdx - 1) = history[Len(history)][1]

\* The strict answers of a cache among the ids of a list: <<a, b>> when the
\* cache returns greater for get(a, b).
StrictPairs(map, ids) ==
    {q \in IdSet(ids) \X IdSet(ids) : q[1] # q[2] /\ CacheGet(map, q[1], q[2]) = 1}

\* The pairs joined by a chain of at most n + 1 pairs of R.
RECURSIVE Chains(_, _)
Chains(R, n) ==
    IF n = 0 THEN R
    ELSE LET C == Chains(R, n - 1)
         IN  C \cup {<<x[1][1], x[2][2]>> : x \in {y \in C \X R : y[1][2] = y[2][1]}}

\* The pairs <<i, j>> joined by a chain i > k1 > ... > j of strict answers
\* that the cache of the last closure pass held before the pass.
ChainsBefore == Chains(StrictPairs(lastOp.before, lastOp.ids), Len(lastOp.ids))

\* C17: after applyTransitiveClosure(cache, S) the cache has an entry for
\* every two distinct ids of S joined by a chain of strict answers cached
\* before, of any length; when those answers have no cycle and the pair had
\* no entry, get(i, j) returns greater; no entry added is equal.
C17_ClosureInfers ==
    lastOp.op = "closure" =>
        LET chains == ChainsBefore
            acyclic == \A q \in chains : q[1] # q[2]
        IN  /\ \A q \in chains :
                q[1] # q[2] => CacheHas(cacheMap, q[1], q[2])
            /\ acyclic =>
                \A q \in chains :
                    ~CacheHas(lastOp.before, q[1], q[2]) =>
                        CacheGet(cacheMap, q[1], q[2]) = 1
            /\ \A key \in (DOMAIN cacheMap) \ (DOMAIN lastOp.before) :
                cacheMap[key] # 0

\* A chain a > b > c > d of three answers, given with d before a as ids, and
\* the pass has made get(a, d) greater.
C17_Witness ==
    /\ lastOp.op = "closure"
    /\ \E a, b, c, d \in IdSet(lastOp.ids) :
        /\ d < a
        /\ DOMAIN lastOp.before = {createCacheKey(a, b), createCacheKey(b, c), createCacheKey(c, d)}
        /\ CacheGet(lastOp.before, a, b) = 1
        /\ CacheGet(lastOp.before, b, c) = 1
        /\ CacheGet(lastOp.before, c, d) = 1
        /\ CacheGet(cacheMap, a, d) = 1
        /\ CacheGet(cacheMap, a, c) = 1
        /\ CacheGet(cacheMap, b, d) = 1

\* C18: applyTransitiveClosure leaves every entry the cache had before the
\* call as it was, equal entries and entries against an inferred order too:
\* get returns for them what it returned before; the pass only adds entries.
C18_ClosureKeepsEntries ==
    lastOp.op = "closure" =>
        /\ \A key \in DOMAIN lastOp.before :
            key \in DOMAIN cacheMap /\ cacheMap[key] = lastOp.before[key]
        /\ \A key \in DOMAIN lastOp.before :
            /\ CacheGet(cacheMap, key[1], key[2]) = CacheGet(lastOp.before, key[1], key[2])
            /\ CacheGet(cacheMap, key[2], key[1]) = CacheGet(lastOp.before, key[2], key[1])

\* A pass over the cyclic answers a > b, b > c, c > a, given with c before
\* a as ids: the entry for (a, c) is as it was.
C18_Witness ==
    /\ lastOp.op = "closure"
    /\ \E a, b, c \in IdSet(lastOp.ids) :
        /\ c < a
        /\ CacheGet(lastOp.before, a, b) = 1
        /\ CacheGet(lastOp.before, b, c) = 1
        /\ CacheGet(lastOp.before, a, c) = -1
        /\ CacheGet(cacheMap, a, c) = -1
        /\ cacheMap = lastOp.before

\* C19: get(a, b) returns the result of the last set on the pair {a, b},
\* turned to the order (a, b), whatever the cache held for the pair and
\* whichever way round the set named it; a set leaves what get returns for
\* every other pair as it was.
C19_LastWriteWins ==
    lastOp.op = "set" =>
        /\ CacheGet(cacheMap, lastOp.a, lastOp.b) = lastOp.result
        /\ CacheGet(cacheMap, lastOp.b, lastOp.a) = Inverse(lastOp.result)
        /\ \A c, d \in CacheIds :
            (c # d /\ {c, d} # {lastOp.a, lastOp.b}) =>
                CacheGet(cacheMap, c, d) = CacheGet(lastOp.before, c, d)

\* set(a, b, less), with a after b as ids, on a cache in which get(a, b) was
\* greater and an answer about another pair is cached.
C19_Witness ==
    /\ lastOp.op = "set"
    /\ lastOp.a > lastOp.b
    /\ lastOp.result = -1
    /\ CacheGet(lastOp.before, lastOp.b, lastOp.a) = -1
    /\ CacheGet(cacheMap, lastOp.b, lastOp.a) = 1
    /\ Cardinality(DOMAIN cacheMap) >= 2

\* C20: getProgress reports comparisonsAsked and comparisonsTotal as they
\* are, and a percentage that is an integer in 0..100: 0 when
\* comparisonsTotal is 0, 100 when comparisonsAsked has reached or passed a
\* comparisonsTotal above 0, and else the integer nearest to
\* 100 * asked / total.
C20_ProgressClamped ==
    LET progress == getProgress(state)
        total == state.comparisonsTotal
        p == progress.percentage
    IN  /\ progress.current = Asked
        /\ progress.total = total
        /\ p \in 0 .. 100
        /\ total = 0 => p = 0
        /\ (total > 0 /\ Asked >= total) => p = 100
        /\ (total > 0 /\ Asked < total) =>
            /\ 2 * p * total - total <= 200 * Asked
            /\ 200 * Asked < 2 * p * total + total

\* More comparisons counted than estimated, for three items or more.
C20_Witness ==
    /\ N >= 3
    /\ state.comparisonsTotal > 0
    /\ Asked > state.comparisonsTotal
    /\ getProgress(state).percentage = 100

\* The cursors of a frame are within its runs and its output is as long as
\* what the cursors have passed.
CursorsWithin(frame) ==
    /\ 0 <= frame.leftIdx /\ frame.leftIdx <= Len(frame.left)
    /\ 0 <= frame.rightIdx /\ frame.rightIdx <= Len(frame.right)
    /\ Len(frame.merged) = frame.leftIdx + frame.rightIdx

FramesWithin(s) ==
    \A i \in 1 .. Len(s.internal.stack) : CursorsWithin(s.internal.stack[i])

\* x is a prefix of y.
IsPrefix(x, y) == Len(x) <= Len(y) /\ SubSeq(y, 1, Len(x)) = x

\* The frame `after` is the frame `before` gone on: the same runs, no cursor
\* moved back, the output extended.
FrameGoneOn(before, after) ==
    /\ after.left = before.left
    /\ after.right = before.right
    /\ after.leftIdx >= before.leftIdx
    /\ after.rightIdx >= before.rightIdx
    /\ IsPrefix(before.merged, after.merged)

\* C21: in a session driven by requestNextPair and commitComparison of the
\* returned pair every frame has 0 <= leftIdx <= |left|,
\* 0 <= rightIdx <= |right| and |merged| = leftIdx + rightIdx; over a step
\* that keeps the frame (no run is pushed to the queue) the runs of the frame
\* stay, the cursors do not go back and merged is extended.
C21_CursorInvariant ==
    [][/\ FramesWithin(state)
       /\ FramesWithin(state')
       /\ (/\ Len(state.internal.stack) > 0
           /\ Len(state'.internal.stack) > 0
           /\ state'.internal.runs = state.internal.runs) =>
                FrameGoneOn(Top(state.internal.stack), Top(state'.internal.stack))]_vars

\* A pair is awaited in a frame that a cached answer has moved on: the
\* session has one answer, the frame for the third id has passed an element.
C21_Witness ==
    /\ phase = "awaiting"
    /\ seed # EmptyRecord
    /\ N = 3
    /\ Len(history) = 1
    /\ Len(state.internal.stack) = 1
    /\ Top(state.internal.stack).rightIdx >= 1
    /\ Len(Top(state.internal.stack).merged) = 1

\* The run queue as it is once the frame on the stack, if there is one, has
\* been finished: its output and what is left of its runs, behind the runs
\* that wait.
QueueAfterDrain(s) ==
    IF Len(s.internal.stack) = 0 THEN s.internal.runs
    ELSE Append(s.internal.runs, FrameHeld(Top(s.internal.stack)))

\* C22: a requestNextPair on a frame with a cursor at the end of its run
\* returns no pair of that frame: what is left of the other run goes to
\* merged in its order, the frame is popped and merged is put at the back of
\* the run queue. A frame is started only when none is active: over the
\* first two runs of the queue as left and right, both cursors 0, no output.
\* A frame with both cursors short of the end is kept and its pair returned.
C22_DrainAndQueueOrder ==
    [][phase = "idle" =>
        IF Len(state.internal.stack) > 0 /\ ~FrameComplete(Top(state.internal.stack))
        THEN /\ state'.internal = state.internal
             /\ pending' = <<At(Top(state.internal.stack).left,
                                Top(state.internal.stack).leftIdx),
                             At(Top(state.internal.stack).right,
                                Top(state.internal.stack).rightIdx)>>
        ELSE LET queue == QueueAfterDrain(state)
             IN  IF Len(queue) <= 1
                 THEN /\ pending' = NoPair
                      /\ state'.internal.stack = <<>>
                      /\ state'.internal.runs = queue
                 ELSE /\ pending' = <<queue[1][1], queue[2][1]>>
                      /\ state'.internal.runs = SubSeq(queue, 3, Len(queue))
                      /\ state'.internal.stack =
                            <<[left |-> queue[1], right |-> queue[2],
                               leftIdx |-> 0, rightIdx |-> 0, merged |-> <<>>]>>]_vars

\* Four items: the two merges of two are finished and the frame over them,
\* first finished first, has been started.
C22_Witness ==
    /\ N = 4
    /\ phase = "awaiting"
    /\ Len(history) = 2
    /\ state.internal.runs = <<>>
    /\ Len(state.internal.stack) = 1
    /\ LET frame == Top(state.internal.stack)
       IN  /\ IdSet(frame.left) = {taskIds[1], taskIds[2]}
           /\ IdSet(frame.right) = {taskIds[3], taskIds[4]}
           /\ frame.leftIdx = 0
           /\ frame.rightIdx = 0
           /\ frame.merged = <<>>

\* C23: comparisonsAsked is the number of answers committed in the session:
\* 0 after createSession and after resetWithCache (which keeps the cache
\* record), one more after each commitComparison, and unchanged, as is the
\* cache record, by requestNextPair, whatever it finds in the cache.
C23_AskedCountsAnswers ==
    [][/\ Asked = Len(history)
       /\ Asked' = Len(history')
       /\ IF restarted' # restarted
          THEN Asked' = 0 /\ state'.cache = state.cache
          ELSE IF history' # history
          THEN Asked' = Asked + 1
          ELSE Asked' = Asked /\ state'.cache = state.cache]_vars

\* A restarted session of three items done at its first request, every pair
\* found in the cache.
C23_Witness ==
    /\ restarted
    /\ N = 3
    /\ phase = "done"
    /\ history = <<>>
    /\ Asked = 0
    /\ Cardinality(SessionKeys(state.cache, taskIds)) >= 2

\* What a well-formed state becomes with internal missing (then so are its
\* three properties), or with one of runs, stack, result not an array.
Malformed(v) ==
    {[v EXCEPT !.internal = k, !.runs = "undefined", !.stack = "undefined",
               !.result = "undefined"] : k \in {"null", "undefined"}}
    \cup {[v EXCEPT !.runs = k] : k \in Kinds \ {"array"}}
    \cup {[v EXCEPT !.stack = k] : k \in Kinds \ {"array"}}
    \cup {[v EXCEPT !.result = k] : k \in Kinds \ {"array"}}

C25_OneFrame ==
    /\ Len(state.internal.stack) <= 1
    /\ phase = "awaiting" =>
         /\ Len(state.internal.stack) = 1
         /\ LET frame == Top(state.internal.stack)
            IN  /\ frame.leftIdx < Len(frame.left)
                /\ frame.rightIdx < Len(frame.right)
                /\ pending = <<At(frame.left, frame.leftIdx),
                               At(frame.right, frame.rightIdx)>>

\* The last merge of four items under way: a pair is pending from a frame
\* whose cursors have both moved, and no run waits in the queue.
C25_Witness ==
    /\ N = 4
    /\ phase = "awaiting"
    /\ state.internal.runs = <<>>
    /\ Len(state.internal.stack) = 1
    /\ Top(state.internal.stack).leftIdx = 1
    /\ Top(state.internal.stack).rightIdx = 1
    /\ pending = <<Top(state.internal.stack).left[2], Top(state.internal.stack).right[2]>>

UnorderedPair(h) == {h[1], h[2]}

\* C26: in a session over distinct ids that follows the protocol, no
\* unordered pair is returned by requestNextPair twice, whatever the answers;
\* every commit adds a new key to the cache, so no entry is overwritten: the
\* entries the session started with and the answer of every commit stay in
\* the cache as they were stored.
C26_NoPairTwice ==
    /\ \A i, j \in 1 .. Len(history) :
         i < j => UnorderedPair(history[i]) # UnorderedPair(history[j])
    /\ phase = "awaiting" =>
         \A i \in 1 .. Len(history) : UnorderedPair(history[i]) # UnorderedPair(pending)
    /\ seed \subseteq state.cache
    /\ \A i \in 1 .. Len(history) :
         CacheGet(createComparisonCache(state.cache), history[i][1], history[i][2])
            = history[i][3]
    /\ Cardinality(RecordKeys(state.cache))
         = Cardinality(RecordKeys(seed)) + Len(history)

\* A session of three ids that started with a stored answer and has committed
\* two more.
C26_Witness ==
    /\ N = 3
    /\ seed # EmptyRecord
    /\ Len(history) = 2
    /\ phase = "done"
    /\ Cardinality(RecordKeys(state.cache)) = 3

\* C27: while a returned pair (a, b) awaits its answer, requestNextPair
\* returns (a, b) again and the state it returns is the state it was given:
\* run queue, frame cursors, merged output, cache and comparisonsAsked are
\* unchanged.
C27_AwaitingIdempotent ==
    phase = "awaiting" =>
        LET again == requestNextPair(state)
        IN  /\ again.pair = pending
            /\ again.state.internal.runs = state.internal.runs
            /\ again.state.internal.stack = state.internal.stack
            /\ again.state.cache = state.cache
            /\ again.state.comparisonsAsked = state.comparisonsAsked
            /\ again.state = state

\* A pair awaited in the middle of the last merge of four ids, after three
\* answers.
C27_Witness ==
    /\ phase = "awaiting"
    /\ N = 4
    /\ Len(history) = 3
    /\ Len(Top(state.internal.stack).merged) = 1
    /\ requestNextPair(state).pair = pending

\* C28: after a session over a list has completed, with any answers, the
\* session started by resetWithCache over the same list in the same order
\* is done at its first requestNextPair, which returns no pair and leaves
\* comparisonsAsked at 0, and finalize returns the order of the completed
\* session.
C28_ReplayDeterminism ==
    phase = "done" =>
        LET replay == requestNextPair(resetWithCache(state, taskIds))
        IN  /\ replay.pair = NoPair
            /\ replay.state.comparisonsAsked = 0
            /\ replay.state.cache = state.cache
            /\ finalize(replay.state) = finalize(state)

\* A completed session of three ids whose cache holds inconsistent answers
\* (a cycle of three strict answers), replayed to the same order.
C28_Witness ==
    /\ phase = "done"
    /\ restarted
    /\ N = 3
    /\ LET cache == createComparisonCache(state.cache)
       IN  \E a, b, c \in 1 .. N :
            /\ CacheGet(cache, a, b) = 1
            /\ CacheGet(cache, b, c) = 1
            /\ CacheGet(cache, c, a) = 1
    /\ finalize(requestNextPair(resetWithCache(state, taskIds)).state) = finalize(state)
    /\ Len(finalize(state)) = 3

\* The persistence subscription writes only when the store is hydrated.
SubscriptionWritesHydrated ==
    persistence.lastWrite.by = "subscription" => persistence.lastWrite.hydrated

\* forceSave writes only when the store is hydrated.
ForceSaveWritesHydrated ==
    persistence.lastWrite.by = "forceSave" => persistence.lastWrite.hydrated

\* Loading the saved state sets no timer: while get(STORAGE_KEY) is awaited
\* nothing is subscribed, so the set of hydrate or setHydrated reaches no
\* subscriber.
HydrateSchedulesNoWrite ==
    persistence.reading =>
        ~persistence.subscribed /\ persistence.debounceTimer = NoTimer

\* hydrateFromStorage is started at most once.
HydrationStartedOnce == persistence.hydrations <= 1

\* C29: storage is never written while the store is not hydrated, by the
\* debounced subscription or by forceSave; hydrate triggers no write; an
\* empty store that is not hydrated never replaces saved lists; hydration
\* from storage is started at most once.
C29_NoWriteBeforeHydrated ==
    /\ SubscriptionWritesHydrated
    /\ ForceSaveWritesHydrated
    /\ HydrateSchedulesNoWrite
    /\ ~persistence.lastWrite.lost
    /\ HydrationStartedOnce

====
